---- MODULE Spec2Model ----
(***************************************************************************)
(* A model of jetdiff/func.py: the Func interface, the PyFunc and ProcFunc *)
(* leaves, the MergeIn and SplitIn adapters and the LazySingle memoizer.   *)
(*                                                                         *)
(* A 1-D array is a sequence of integers, a 2-D array a sequence of rows.  *)
(* A Python attribute that may hold None is an option: None is <<>> and a  *)
(* held value v is <<v>>.                                                  *)
(***************************************************************************)
EXTENDS Integers, Sequences, FiniteSets, TLC

\* ------------------------------------------------------------------ bounds
\* Largest total input width of a leaf.
MaxDim == 3
\* Largest number of adapters (MergeIn / SplitIn) stacked on a leaf.
MaxDepth == 2
\* The values an input array element takes.
Vals == {0, 1}
\* The output widths (dim_out) of a leaf that supplies jac.
DimOuts == {1, 2}
\* The values an entry of a leaf's Jacobian takes.
JacVals == {1, 2}

\* ----------------------------------------------------------------- options
None == <<>>
Some(v) == <<v>>
IsNone(o) == o = <<>>
Get(o) == o[1]

\* ------------------------------------------------------ numpy on sequences
RECURSIVE NpSum(_)
\* np.sum of a tuple of integers.
NpSum(s) == IF Len(s) = 0 THEN 0 ELSE s[1] + NpSum(Tail(s))

RECURSIVE CumsumFrom(_, _)
CumsumFrom(acc, s) ==
    IF Len(s) = 0 THEN <<>>
    ELSE <<acc + s[1]>> \o CumsumFrom(acc + s[1], Tail(s))

\* np.cumsum: the running sums of s, as long as s.
NpCumsum(s) == CumsumFrom(0, s)

\* [slice(st, ed) for (st, ed) in zip(cs[:-1], cs[1:])]
ZipSlices(cs) == [i \in 1 .. (Len(cs) - 1) |-> <<cs[i], cs[i + 1]>>]

Min(a, b) == IF a < b THEN a ELSE b

\* A slice that takes one element too many: x[st:ed + 1].
PySliceInclusive(x, s) ==
    LET st == IF s[1] < Len(x) THEN s[1] ELSE Len(x)
        ed == IF s[2] + 1 < Len(x) THEN s[2] + 1 ELSE Len(x)
    IN  IF st >= ed THEN <<>> ELSE SubSeq(x, st + 1, ed)

\* x[st:ed] of a sequence for 0 <= st, 0 <= ed: Python clips both ends to len(x).
PySlice(x, s) ==
    LET st == Min(s[1], Len(x))
        ed == Min(s[2], Len(x))
    IN  IF st >= ed THEN <<>> ELSE SubSeq(x, st + 1, ed)

\* The outcome of an operation: err is "none" or the exception raised.
Ok(v) == [err |-> "none", v |-> v]
Raise(e) == [err |-> e, v |-> <<>>]

RECURSIVE ConcatSeqs(_)
\* The arrays of xs joined along their first axis.
ConcatSeqs(xs) == IF Len(xs) = 0 THEN <<>> ELSE xs[1] \o ConcatSeqs(Tail(xs))

\* np.concatenate of a tuple of 1-D arrays (axis 0 is their only axis); of no
\* array at all, or of a tuple with a None in it (a zero-dimensional array),
\* it raises ValueError.  An array has at least one element, None is <<>>.
NpConcatenate1D(xs) ==
    IF Len(xs) = 0 \/ (\E i \in 1 .. Len(xs) : IsNone(xs[i]))
    THEN Raise("ValueError")
    ELSE Ok(ConcatSeqs(xs))

Rows(M) == Len(M)
Cols(M) == Len(M[1])

\* np.concatenate of a tuple of 2-D arrays with its default axis=0: the arrays
\* must agree in every dimension but the first, and their rows are appended.
NpConcatenate(ms) ==
    IF Len(ms) = 0 THEN Raise("ValueError")
    ELSE IF \E i \in 1 .. Len(ms) : Cols(ms[i]) /= Cols(ms[1])
         THEN Raise("ValueError")
         ELSE Ok(ConcatSeqs(ms))

\* A slice of the rows instead of the columns: jac[s].
RowSlice(M, s) ==
    LET st == IF s[1] < Len(M) THEN s[1] ELSE Len(M)
        ed == IF s[2] < Len(M) THEN s[2] ELSE Len(M)
    IN  IF st >= ed THEN <<>> ELSE SubSeq(M, st + 1, ed)

\* jac[:, s]: every row kept, the columns of slice s.
ColSlice(M, s) == [r \in 1 .. Rows(M) |-> PySlice(M[r], s)]

\* ------------------------------------------------------------ the callable
\* The wrapped numeric callable of a leaf: it takes the input blocks as
\* positional arguments.  This one fails on the all-zero input and otherwise
\* returns a positional encoding of its arguments, so that different inputs
\* give different values.
RECURSIVE Flat(_)
\* The elements of the argument arrays, in order.
Flat(args) == IF Len(args) = 0 THEN <<>> ELSE args[1] \o Flat(Tail(args))

RECURSIVE Weighted(_, _)
Weighted(flat, w) ==
    IF Len(flat) = 0 THEN 0 ELSE flat[1] * w + Weighted(Tail(flat), 2 * w)

RECURSIVE Total(_)
Total(flat) == IF Len(flat) = 0 THEN 0 ELSE flat[1] + Total(Tail(flat))

\* The callable raises on an argument that is None and on the all-zero input.
FuncRaises(args) ==
    \/ \E i \in 1 .. Len(args) : IsNone(args[i])
    \/ Total(Flat(args)) = 0

FuncResult(args, dim_out) ==
    [r \in 1 .. dim_out |-> Weighted(Flat(args), 1) + 100 * (r - 1)]

\* -------------------------------------------------------------- the objects
\* A Func is a leaf under a stack of adapters: wraps[1] wraps the leaf and
\* wraps[i + 1] wraps wraps[i].  Level 0 is the leaf, level i is wraps[i].

\* Func.jac of the base class: raise NotImplementedError().
FuncJac == Raise("NotImplementedError")

\* PyFunc.__init__: a leaf around the callable; PyFunc inherits Func.jac.
PyFuncInit(dims_in, dim_out) ==
    [dims_in |-> dims_in, dim_out |-> dim_out, xs |-> None, ret |-> None,
     jac |-> FuncJac]

\* A leaf of a Func subclass that supplies its Jacobians: jac is its tuple of
\* per-block matrices, jac[i] of shape (dim_out x dims_in[i]).
JacFuncInit(dims_in, dim_out, jac) ==
    [dims_in |-> dims_in, dim_out |-> dim_out, xs |-> None, ret |-> None,
     jac |-> Ok(jac)]

\* MergeIn.__init__ over an inner Func with dims_in = func_dims_in.
MergeInInit(func_dims_in) ==
    LET cs == NpCumsum(<<0>> \o func_dims_in)
    IN  [kind |-> "MergeIn", dims_in |-> <<NpSum(func_dims_in)>>,
         slices |-> ZipSlices(cs), xs |-> None]

NoWrapper == [kind |-> "none", dims_in |-> <<>>, slices |-> <<>>, xs |-> None]

\* A constructor that checks the first inner width only.
SplitInInitFirstOnly(func_dims_in, dims_in) ==
    LET cs == NpCumsum(<<0>> \o dims_in)
    IN  IF func_dims_in[1] /= cs[Len(cs)]
        THEN [err |-> "ValueError", obj |-> NoWrapper]
        ELSE [err |-> "none",
              obj |-> [kind |-> "SplitIn", dims_in |-> dims_in,
                       slices |-> ZipSlices(cs), xs |-> None]]

\* SplitIn.__init__ over an inner Func with dims_in = func_dims_in.
SplitInInit(func_dims_in, dims_in) ==
    IF Len(func_dims_in) /= 1 THEN [err |-> "ValueError", obj |-> NoWrapper]
    ELSE LET cs == NpCumsum(<<0>> \o dims_in)
         IN  IF func_dims_in /= <<cs[Len(cs)]>>
             THEN [err |-> "ValueError", obj |-> NoWrapper]
             ELSE [err |-> "none",
                   obj |-> [kind |-> "SplitIn", dims_in |-> dims_in,
                            slices |-> ZipSlices(cs), xs |-> None]]

Top(f) == Len(f.wraps)

\* The dims_in property of the Func at level L.
DimsInAt(f, L) == IF L = 0 THEN f.leaf.dims_in ELSE f.wraps[L].dims_in

\* The dim_out property: every adapter forwards its inner Func's.
DimOutAt(f, L) == f.leaf.dim_out

\* The stack with wrapper w put on top.
Wrap(f, w) == [f EXCEPT !.wraps = Append(@, w)]

\* A compute that drops the cached result before it calls the callable.
PyFuncComputeClearing(leaf) ==
    IF IsNone(leaf.xs)
    THEN [leaf |-> leaf, raised |-> "TypeError", calls |-> 0, seen |-> None]
    ELSE IF FuncRaises(Get(leaf.xs))
    THEN [leaf |-> [leaf EXCEPT !.ret = None], raised |-> "Error",
          calls |-> 1, seen |-> leaf.xs]
    ELSE [leaf |-> [leaf EXCEPT !.ret = Some(FuncResult(Get(leaf.xs), leaf.dim_out))],
          raised |-> "none", calls |-> 1, seen |-> leaf.xs]

\* PyFunc.compute: self._ret = self._func(*self._xs).  Unpacking None raises
\* TypeError before the call; an exception of the callable leaves _ret alone.
PyFuncCompute(leaf) ==
    IF IsNone(leaf.xs)
    THEN [leaf |-> leaf, raised |-> "TypeError", calls |-> 0, seen |-> None]
    ELSE IF FuncRaises(Get(leaf.xs))
    THEN [leaf |-> leaf, raised |-> "Error", calls |-> 1, seen |-> leaf.xs]
    ELSE [leaf |-> [leaf EXCEPT !.ret = Some(FuncResult(Get(leaf.xs), leaf.dim_out))],
          raised |-> "none", calls |-> 1, seen |-> leaf.xs]

\* An xs setter that evaluates the callable at once.
PyFuncSetXsEager(leaf, xs_in) ==
    IF FuncRaises(xs_in) THEN [leaf EXCEPT !.xs = Some(xs_in)]
    ELSE [leaf EXCEPT !.xs = Some(xs_in),
                      !.ret = Some(FuncResult(xs_in, leaf.dim_out))]

\* The xs setter of PyFunc: self._xs = xs_in.
PyFuncSetXs(leaf, xs_in) == [leaf EXCEPT !.xs = Some(xs_in)]

\* The xs setter of MergeIn: (self._x,) = xs_in, and the inner Func's xs is
\* [self._x[s] for s in self._slices].  Unpacking a tuple of another length
\* than 1 raises ValueError with nothing assigned; slicing None raises
\* TypeError with _x assigned.  own is the attribute _x
\* afterwards (as the tuple the xs getter returns), inner the value assigned
\* to the inner Func's xs when err is "none".
MergeInSetXs(w, xs_in) ==
    IF Len(xs_in) /= 1
    THEN [err |-> "ValueError", own |-> w.xs, inner |-> <<>>]
    ELSE LET x == xs_in[1]
         IN  IF IsNone(x) /\ Len(w.slices) > 0
             THEN [err |-> "TypeError", own |-> Some(<<x>>), inner |-> <<>>]
             ELSE [err |-> "none", own |-> Some(<<x>>),
                   inner |-> [i \in 1 .. Len(w.slices) |->
                                 PySlice(x, w.slices[i])]]

\* The xs setter of SplitIn: self._xs = xs_in, and the inner Func's xs is
\* (np.concatenate(self._xs),).  When np.concatenate raises, _xs is assigned
\* already and the inner Func's xs is not.
SplitInSetXs(w, xs_in) ==
    LET c == NpConcatenate1D(xs_in)
    IN  [err |-> c.err, own |-> Some(xs_in), inner |-> <<c.v>>]

RECURSIVE SetXsAt(_, _, _)
\* The xs setter of the Func at level L, given xs_in: f is the stack
\* afterwards and raised the exception that reached the caller.
SetXsAt(f, L, xs_in) ==
    IF L = 0
    THEN [f |-> [f EXCEPT !.leaf = PyFuncSetXs(@, xs_in)], raised |-> "none"]
    ELSE LET r == IF f.wraps[L].kind = "MergeIn"
                  THEN MergeInSetXs(f.wraps[L], xs_in)
                  ELSE SplitInSetXs(f.wraps[L], xs_in)
             g == [f EXCEPT !.wraps[L].xs = r.own]
         IN  IF r.err /= "none" THEN [f |-> g, raised |-> r.err]
             ELSE SetXsAt(g, L - 1, r.inner)

RECURSIVE ComputeAt(_, _)
\* compute() of the Func at level L: the adapters delegate to their inner Func.
\* f is the stack afterwards, raised the exception that reached the caller,
\* calls the number of times the callable ran and seen its arguments.
ComputeAt(f, L) ==
    IF L = 0
    THEN LET r == PyFuncCompute(f.leaf)
         IN  [f |-> [f EXCEPT !.leaf = r.leaf], raised |-> r.raised,
              calls |-> r.calls, seen |-> r.seen]
    ELSE ComputeAt(f, L - 1)

\* PyFunc.__call__(*args): self.xs = args; self.compute(); return self.val.
\* out is what the caller gets: the val, or the exception of compute().
PyFuncCall(leaf, args) ==
    LET r == PyFuncCompute(PyFuncSetXs(leaf, args))
    IN  [leaf |-> r.leaf, raised |-> r.raised, calls |-> r.calls, seen |-> r.seen,
         out |-> IF r.raised /= "none" THEN Raise(r.raised) ELSE Ok(r.leaf.ret)]

RECURSIVE ValAt(_, _)
\* The val property at level L.
ValAt(f, L) == IF L = 0 THEN f.leaf.ret ELSE ValAt(f, L - 1)

\* MergeIn.jac: (np.concatenate(self._func.jac),), for inner the outcome of
\* reading self._func.jac.
MergeInJac(w, inner) ==
    IF inner.err /= "none" THEN inner
    ELSE LET c == NpConcatenate(inner.v)
         IN  IF c.err /= "none" THEN c ELSE Ok(<<c.v>>)

\* SplitIn.jac: (jac,) = self._func.jac; [jac[:, s] for s in self._slices].
\* Unpacking a tuple of another length than 1 raises ValueError.
SplitInJac(w, inner) ==
    IF inner.err /= "none" THEN inner
    ELSE IF Len(inner.v) /= 1 THEN Raise("ValueError")
    ELSE Ok([i \in 1 .. Len(w.slices) |-> ColSlice(inner.v[1], w.slices[i])])

RECURSIVE JacAt(_, _)
\* The jac property at level L.
JacAt(f, L) ==
    IF L = 0 THEN f.leaf.jac
    ELSE IF f.wraps[L].kind = "MergeIn"
    THEN MergeInJac(f.wraps[L], JacAt(f, L - 1))
    ELSE SplitInJac(f.wraps[L], JacAt(f, L - 1))

\* The class of the Func at level L.
KindAt(f, L) == IF L = 0 THEN "PyFunc" ELSE f.wraps[L].kind

\* The xs property at level L.  PyFunc.xs returns self._xs, None included;
\* MergeIn.xs and SplitIn.xs raise AttributeError while their attribute has
\* never been assigned.  The value read is an option: None or Some(tuple).
XsAt(f, L) ==
    IF L = 0 THEN Ok(f.leaf.xs)
    ELSE IF IsNone(f.wraps[L].xs) THEN Raise("AttributeError")
    ELSE Ok(f.wraps[L].xs)

\* ------------------------------------------------------------- the inputs
\* The tuples of positive block widths of total width D.
Compositions(D) ==
    {s \in UNION {[1 .. k -> 1 .. D] : k \in 1 .. D} : NpSum(s) = D}

AllDims == UNION {Compositions(D) : D \in 1 .. MaxDim}

Arrays(n) == [1 .. n -> Vals]

RECURSIVE Before(_, _)
\* The total width of the blocks before block i.
Before(dims, i) == IF i = 1 THEN 0 ELSE dims[i - 1] + Before(dims, i - 1)

\* Block i of the flat array, for block widths dims.
Block(flat, dims, i) ==
    SubSeq(flat, Before(dims, i) + 1, Before(dims, i) + dims[i])

Blocks(flat, dims) == [i \in 1 .. Len(dims) |-> Block(flat, dims, i)]

\* The well-shaped values of xs for a Func with the given dims_in.
Inputs(dims) == {Blocks(flat, dims) : flat \in Arrays(NpSum(dims))}

\* Values of xs that the setter of an adapter with the given dims_in rejects:
\* the empty tuple and, for a MergeIn, a tuple of two arrays.
IllShaped(kind, dims) ==
    IF kind = "MergeIn" THEN {<<>>, <<[i \in 1 .. dims[1] |-> 1], <<1>>>>}
    ELSE IF kind = "SplitIn" THEN {<<>>}
    ELSE {}

\* The Funcs built from a set S of Funcs by one more adapter.
Wrapped(S) ==
    {Wrap(f, MergeInInit(DimsInAt(f, Top(f)))) : f \in S}
    \cup UNION {{Wrap(f, SplitInInit(DimsInAt(f, Top(f)), d).obj) :
                    d \in Compositions(NpSum(DimsInAt(f, Top(f))))} :
                 f \in {g \in S : Len(DimsInAt(g, Top(g))) = 1}}

RECURSIVE Stacks(_, _)
\* The Funcs with at most n adapters over the leaves in S.
Stacks(S, n) == IF n = 0 THEN S ELSE S \cup Stacks(Wrapped(S), n - 1)

\* The PyFuncs of every input layout, of output width 1.
PyLeaves == {[leaf |-> PyFuncInit(d, 1), wraps |-> <<>>] : d \in AllDims}

\* ------------------------------------------------------------------- state
VARIABLES
    fn,      \* the Func under test: a leaf and the adapters stacked on it
    last,    \* what the last operation on fn was and how it ended
    lz,      \* the LazySingle around fn
    ctor,    \* the outcome of the last construction or property read
    pool     \* the process pool shared by the ProcFunc leaves, and its callers

vars == <<fn, last, lz, ctor, pool>>

NoOp == [op |-> "init", level |-> 0, raised |-> "none", calls |-> 0, seen |-> None]
NoLazy == [op |-> "init"]
NoCtor == [op |-> "init"]
NoPool == [on |-> FALSE]

\* ---------------------------------------------- set xs / compute / read val
Init ==
    /\ fn \in Stacks(PyLeaves, MaxDepth)
    /\ last = NoOp
    /\ lz = NoLazy
    /\ ctor = NoCtor
    /\ pool = NoPool

\* g.xs = X, for g the Func at level L of fn.  An adapter is the only writer of
\* its inner Func's xs, so the caller assigns at the outermost level.
SetXs(L, X) ==
    LET r == SetXsAt(fn, L, X)
    IN  /\ fn' = r.f
        /\ last' = [op |-> "setxs", level |-> L, raised |-> r.raised,
                    calls |-> 0, seen |-> None]
        /\ UNCHANGED <<lz, ctor, pool>>

\* p(*X), for fn a PyFunc p (the adapters define no __call__): the assignment
\* of xs and the compute() of one call; last records the compute() the call
\* ends with.  Like SetXs, it is applied to the outermost Func, which is the
\* one that assigns the xs of the Funcs it wraps.
Call(X) ==
    LET r == PyFuncCall(fn.leaf, X)
    IN  /\ Top(fn) = 0
        /\ fn' = [fn EXCEPT !.leaf = r.leaf]
        /\ last' = [op |-> "compute", level |-> 0, raised |-> r.raised,
                    calls |-> r.calls, seen |-> r.seen]
        /\ UNCHANGED <<lz, ctor, pool>>

\* g.compute(), for g the Func at level L of fn
Compute(L) ==
    LET r == ComputeAt(fn, L)
    IN  /\ fn' = r.f
        /\ last' = [op |-> "compute", level |-> L, raised |-> r.raised,
                    calls |-> r.calls, seen |-> r.seen]
        /\ UNCHANGED <<lz, ctor, pool>>

Next ==
    \/ \E X \in Inputs(DimsInAt(fn, Top(fn))) : SetXs(Top(fn), X)
    \/ \E X \in IllShaped(KindAt(fn, Top(fn)), DimsInAt(fn, Top(fn))) :
          SetXs(Top(fn), X)
    \/ \E L \in 0 .. Top(fn) : Compute(L)
    \/ \E X \in Inputs(DimsInAt(fn, 0)) : Call(X)

Spec == Init /\ [][Next]_vars

\* ------------------------------------------------------------- claims (Spec)
IsMergeIn(L) == L >= 1 /\ fn.wraps[L].kind = "MergeIn"

\* The slice table of the MergeIn at level L is the partition of [0, D) into
\* the ranges [offset_i, offset_i + d_i) of the inner blocks, in order.
SliceTableIsPartition(L) ==
    LET d == DimsInAt(fn, L - 1)
        sl == fn.wraps[L].slices
    IN  /\ Len(sl) = Len(d)
        /\ \A i \in 1 .. Len(d) : sl[i] = <<Before(d, i), Before(d, i) + d[i]>>
        /\ sl[1][1] = 0
        /\ sl[Len(sl)][2] = NpSum(d)
        /\ \A i \in 1 .. (Len(sl) - 1) : sl[i][2] = sl[i + 1][1]

\* C4: the slice table of every MergeIn is the in-order partition of [0, D)
\* into [offset_i, offset_i + d_i), no step changes it, and once an assignment
\* has given a MergeIn's xs a flat array X of length D the inner Func's xs are
\* the sub-arrays X[offset_i : offset_i + d_i] in block order (before any
\* assignment, reading the MergeIn's xs raises AttributeError).
C4_MergeInSlices ==
    /\ [](\A L \in 1 .. Top(fn) : IsMergeIn(L) =>
            /\ SliceTableIsPartition(L)
            /\ (last.op = "setxs" /\ last.raised = "none") =>
                 XsAt(fn, L).err = "none"
            /\ XsAt(fn, L).err = "none" =>
                 XsAt(fn, L - 1) =
                    Ok(Some(Blocks(Get(XsAt(fn, L).v)[1], DimsInAt(fn, L - 1)))))
    /\ [][\A L \in 1 .. Top(fn) : fn'.wraps[L].slices = fn.wraps[L].slices]_vars

\* A MergeIn over blocks of widths (1, 2) has just been assigned a flat array.
C4_Witness ==
    /\ last.op = "setxs"
    /\ IsMergeIn(Top(fn))
    /\ DimsInAt(fn, Top(fn) - 1) = <<1, 2>>
    /\ last.raised = "none"
    /\ XsAt(fn, Top(fn)) = Ok(Some(<<(<<1, 0, 1>>)>>))

\* C7: a compute() at any level (that of a PyFunc call included) either
\* succeeds, and val at every level is then the callable's result on the
\* PyFunc's xs, or it raises, the callable having run at most
\* once, and val and jac at every level are what they were before.
C7_ComputeAllOrNothing ==
    [][last'.op = "compute" =>
        /\ last'.calls <= 1
        /\ (last'.raised = "Error") =
              (~IsNone(fn'.leaf.xs) /\ FuncRaises(Get(fn'.leaf.xs)))
        /\ last'.raised = "none" =>
              \A L \in 0 .. Top(fn) :
                 ValAt(fn', L) = Some(FuncResult(Get(fn'.leaf.xs), DimOutAt(fn, L)))
        /\ last'.raised /= "none" =>
              \A L \in 0 .. Top(fn) :
                 /\ ValAt(fn', L) = ValAt(fn, L)
                 /\ JacAt(fn', L) = JacAt(fn, L)]_vars

\* A compute() on a nested Func has failed while an earlier val was cached.
C7_Witness ==
    /\ last.op = "compute"
    /\ last.raised = "Error"
    /\ last.level = 2
    /\ ~IsNone(ValAt(fn, Top(fn)))

\* C8: assigning xs never runs the callable and leaves val as it was; val
\* changes only in compute() (PyFunc.__call__ runs compute()); and a
\* compute() that follows a successful `xs = X` on the same Func, with xs
\* still X, and does not raise leaves val the callable's result on X.
C8_SetXsIsLazy ==
    [][/\ last'.op = "setxs" =>
            /\ last'.calls = 0
            /\ \A L \in 0 .. Top(fn) : ValAt(fn', L) = ValAt(fn, L)
       /\ (\E L \in 0 .. Top(fn) : ValAt(fn', L) /= ValAt(fn, L)) =>
            last'.op = "compute"
       /\ (/\ last.op = "setxs" /\ last.raised = "none" /\ last'.op = "compute"
           /\ last'.level = last.level /\ last'.raised = "none"
           /\ XsAt(fn', last.level) = XsAt(fn, last.level)) =>
            ValAt(fn', last.level) =
               Some(FuncResult(
                      Blocks(Flat(Get(XsAt(fn, last.level).v)), fn.leaf.dims_in),
                      DimOutAt(fn, last.level)))]_vars

\* xs has been assigned on a nested Func that holds the val of an earlier
\* input: the assignment has not touched val.
C8_Witness ==
    /\ last.op = "setxs"
    /\ Top(fn) = 2
    /\ ~IsNone(ValAt(fn, 2))
    /\ ValAt(fn, 2) /= Some(FuncResult(Get(fn.leaf.xs), DimOutAt(fn, 2)))
    /\ ~FuncRaises(Get(fn.leaf.xs))

\* --------------------------------------------------------- reading jac
\* The Jacobian tuples of a leaf with the given dims: the column blocks of
\* every (dim_out x D) matrix over JacVals.
JacTuples(dims, dim_out) ==
    {[i \in 1 .. Len(dims) |-> [r \in 1 .. dim_out |-> Block(M[r], dims, i)]] :
        M \in [1 .. dim_out -> [1 .. NpSum(dims) -> JacVals]]}

JacLeaves ==
    UNION {{[leaf |-> JacFuncInit(d, o, j), wraps |-> <<>>] :
              j \in JacTuples(d, o)} : d \in AllDims, o \in DimOuts}

InitJac ==
    /\ fn \in JacLeaves
    /\ last = NoOp
    /\ lz = NoLazy
    /\ ctor = NoCtor
    /\ pool = NoPool

\* MergeIn(fn).jac
ReadMergeInJac ==
    LET m == Wrap(fn, MergeInInit(DimsInAt(fn, 0)))
    IN  /\ ctor' = [op |-> "MergeIn.jac", dims |-> <<>>, out |-> JacAt(m, 1)]
        /\ UNCHANGED <<fn, last, lz, pool>>

\* SplitIn(fn, d).jac, for a single-input fn
ReadSplitInJac(d) ==
    LET c == SplitInInit(DimsInAt(fn, 0), d)
    IN  /\ c.err = "none"
        /\ ctor' = [op |-> "SplitIn.jac", dims |-> d,
                    out |-> JacAt(Wrap(fn, c.obj), 1)]
        /\ UNCHANGED <<fn, last, lz, pool>>

\* g = SplitIn(MergeIn(fn), fn.dims_in); g.xs = X; g.compute(); then g.val and
\* g.jac are read, next to fn.val and fn.jac.
RoundTrip(X) ==
    LET d == DimsInAt(fn, 0)
        m == Wrap(fn, MergeInInit(d))
        c == SplitInInit(DimsInAt(m, 1), d)
        r == ComputeAt(SetXsAt(Wrap(m, c.obj), 2, X).f, 2)
    IN  /\ c.err = "none"
        /\ fn' = [fn EXCEPT !.leaf = r.f.leaf]
        /\ last' = [op |-> "compute", level |-> 2, raised |-> r.raised,
                    calls |-> r.calls, seen |-> r.seen]
        /\ ctor' = [op |-> "roundtrip", dims |-> d, xs |-> X,
                    val |-> ValAt(r.f, 2), out |-> JacAt(r.f, 2)]
        /\ UNCHANGED <<lz, pool>>

NextJac ==
    \/ ReadMergeInJac
    \/ \E d \in AllDims : ReadSplitInJac(d)

SpecJac == InitJac /\ [][NextJac]_vars

NextRound == \E X \in Inputs(DimsInAt(fn, 0)) : RoundTrip(X)

SpecRound == InitJac /\ [][NextRound]_vars

\* Row r of the matrices of j, side by side.
HConcat(j, dim_out) ==
    [r \in 1 .. dim_out |-> Flat([i \in 1 .. Len(j) |-> j[i][r]])]

\* C2: MergeIn.jac is the one matrix of shape (dim_out x sum d_i) made of the
\* inner per-block Jacobians side by side, in block order.
C2_MergeInJacIsHorizontal ==
    ctor.op = "MergeIn.jac" =>
        /\ ctor.out = Ok(<<HConcat(fn.leaf.jac.v, fn.leaf.dim_out)>>)
        /\ Rows(ctor.out.v[1]) = fn.leaf.dim_out
        /\ Cols(ctor.out.v[1]) = NpSum(fn.leaf.dims_in)

\* C3: after xs = X and compute() on SplitIn(MergeIn(f), f.dims_in), f has
\* been called with exactly the blocks of X, and the wrapper's val and jac
\* are f's own val and jac.
C3_RoundTrip ==
    (ctor.op = "roundtrip" /\ last.raised = "none") =>
        /\ last.seen = Some(ctor.xs)
        /\ fn.leaf.xs = Some(ctor.xs)
        /\ ctor.val = fn.leaf.ret
        /\ ctor.out = fn.leaf.jac

\* C5: SplitIn.jac is one matrix per requested width, in order, the i-th
\* being the columns [offset_i, offset_i + d_i) of the inner Jacobian with
\* every row kept.
C5_SplitInJacColumns ==
    ctor.op = "SplitIn.jac" =>
        LET J == fn.leaf.jac.v[1]
            d == ctor.dims
        IN  /\ ctor.out.err = "none"
            /\ Len(ctor.out.v) = Len(d)
            /\ \A i \in 1 .. Len(d) :
                  /\ ctor.out.v[i] =
                        [r \in 1 .. fn.leaf.dim_out |->
                            SubSeq(J[r], Before(d, i) + 1, Before(d, i) + d[i])]
                  /\ Rows(ctor.out.v[i]) = fn.leaf.dim_out
                  /\ Cols(ctor.out.v[i]) = d[i]

\* SplitIn with widths (2, 1) has split a (2 x 3) Jacobian whose columns differ.
C5_Witness ==
    /\ ctor.op = "SplitIn.jac"
    /\ ctor.dims = <<2, 1>>
    /\ fn.leaf.jac.v[1] = <<(<<1, 2, 2>>), (<<2, 1, 2>>)>>
    /\ ctor.out.v = <<(<<(<<1, 2>>), (<<2, 1>>)>>), (<<(<<2>>), (<<2>>)>>)>>

\* --------------------------------------------------- constructing SplitIn
\* The width tuples a caller may request.
ReqDims ==
    {d \in UNION {[1 .. k -> 1 .. MaxDim] : k \in 1 .. MaxDim} :
        NpSum(d) <= MaxDim + 1}

InitCtor ==
    /\ fn \in Stacks(PyLeaves, MaxDepth)
    /\ last = NoOp
    /\ lz = NoLazy
    /\ ctor = NoCtor
    /\ pool = NoPool

\* SplitIn(fn, d): fn becomes the new SplitIn when the constructor returns.
ConstructSplitIn(d) ==
    LET c == SplitInInit(DimsInAt(fn, Top(fn)), d)
    IN  /\ ctor.op = "init"
        /\ ctor' = [op |-> "SplitIn", dims |-> d,
                    inner |-> DimsInAt(fn, Top(fn)), err |-> c.err]
        /\ fn' = IF c.err = "none" THEN Wrap(fn, c.obj) ELSE fn
        /\ UNCHANGED <<last, lz, pool>>

NextCtor == \E d \in ReqDims : ConstructSplitIn(d)

SpecCtor == InitCtor /\ [][NextCtor]_vars

\* C6: SplitIn(func, dims_in) raises ValueError exactly when func has not
\* exactly one input block or the requested widths do not sum to its sole
\* input width; otherwise the SplitIn is built, with the requested dims_in.
C6_SplitInConfigError ==
    ctor.op = "SplitIn" =>
        /\ ctor.err \in {"none", "ValueError"}
        /\ (ctor.err = "ValueError") =
              (Len(ctor.inner) /= 1 \/ Total(ctor.dims) /= ctor.inner[1])
        /\ ctor.err = "none" =>
              /\ fn.wraps[Top(fn)].kind = "SplitIn"
              /\ DimsInAt(fn, Top(fn)) = ctor.dims
              /\ DimsInAt(fn, Top(fn) - 1) = ctor.inner

\* Widths (1, 1) have been refused over an inner Func of input width 3.
C6_Witness ==
    /\ ctor.op = "SplitIn"
    /\ ctor.inner = <<3>>
    /\ ctor.dims = <<1, 1>>
    /\ ctor.err = "ValueError"

\* ------------------------------------------------------------- LazySingle
\* The number of distinct array objects a caller holds.  An object is named
\* by its reference: 1 .. NObj are arrays, NoneRef is Python's None.
NObj == 2
NoneRef == 0
\* The previous-call marker of a LazySingle that has not been called yet.
NoCall == NoneRef - 1

Refs == 0 .. NObj

\* The contents of the object x in heap h.
Deref(h, x) == IF x = NoneRef THEN None ELSE h[x]

\* The input widths of the Funcs put under a LazySingle.
LazyLeaves ==
    {[leaf |-> PyFuncInit(<<D>>, 1), wraps |-> <<>>] : D \in 1 .. (MaxDim - 1)}
    \cup UNION {{[leaf |-> JacFuncInit(<<D>>, 1, j), wraps |-> <<>>] :
                   j \in JacTuples(<<D>>, 1)} : D \in 1 .. (MaxDim - 1)}

\* LazySingle.__init__: self._x = None.  heap is the caller's objects; op,
\* arg, prev, computed and out record the last call: which access path, the
\* object supplied, the object supplied on the call before it, whether
\* compute() was invoked, and what came back.
InitLazy ==
    /\ fn \in LazyLeaves
    /\ last = NoOp
    /\ \E h \in [1 .. NObj -> Arrays(fn.leaf.dims_in[1])] :
          lz = [op |-> "init", x |-> NoneRef, heap |-> h, arg |-> NoCall,
                prev |-> NoCall, computed |-> FALSE, out |-> Raise("init")]
    /\ ctor = NoCtor
    /\ pool = NoPool

\* LazySingle._update: if self._x is not x, then self._x = x, the Func's xs is
\* (x,) and compute() runs.  x is the cached reference afterwards.
LazyUpdate(cached, f, h, x) ==
    IF cached /= x
    THEN LET a == SetXsAt(f, Top(f), <<Deref(h, x)>>)
             r == ComputeAt(a.f, Top(f))
         IN  IF a.raised /= "none"
             THEN [x |-> x, f |-> a.f, computed |-> FALSE, raised |-> a.raised,
                   calls |-> 0, seen |-> None]
             ELSE [x |-> x, f |-> r.f, computed |-> TRUE, raised |-> r.raised,
                   calls |-> r.calls, seen |-> r.seen]
    ELSE [x |-> cached, f |-> f, computed |-> FALSE, raised |-> "none",
          calls |-> 0, seen |-> None]

\* LazySingle.__call__(x) when path = "val", LazySingle.jac(x) when "jac".
LazyRead(path, x) ==
    LET u == LazyUpdate(lz.x, fn, lz.heap, x)
        got == IF path = "val" THEN Ok(ValAt(u.f, Top(u.f)))
               ELSE JacAt(u.f, Top(u.f))
    IN  /\ fn' = u.f
        /\ lz' = [lz EXCEPT !.op = path, !.x = u.x, !.arg = x,
                            !.prev = lz.arg, !.computed = u.computed,
                            !.out = IF u.raised /= "none" THEN Raise(u.raised)
                                    ELSE got]
        /\ last' = IF u.computed
                   THEN [op |-> "compute", level |-> Top(fn), raised |-> u.raised,
                         calls |-> u.calls, seen |-> u.seen]
                   ELSE last
        /\ UNCHANGED <<ctor, pool>>

LazyCall(x) == LazyRead("val", x)

LazyJac(x) == LazyRead("jac", x)

NextLazy ==
    \/ \E x \in Refs : LazyCall(x)
    \/ \E x \in Refs : LazyJac(x)

SpecLazy == InitLazy /\ [][NextLazy]_vars

\* C1: a call invokes compute() exactly when the object supplied is not the
\* object supplied on the call just before it (a first call has no such
\* object, so it computes): the same object twice in a row, by either access
\* path, computes once.
C1_ComputeIffNewObject ==
    lz.op /= "init" => (lz.computed = (lz.arg /= lz.prev))

\* C10: every value that __call__(x) returns and every Jacobian that jac(x)
\* returns comes from a successful compute() with xs = (x,): the last
\* compute() was given x's contents and did not raise, and a returned value
\* is the callable's result on x.
C10_CacheCoherence ==
    (lz.op /= "init" /\ lz.out.err = "none") =>
        /\ last.op = "compute"
        /\ last.raised = "none"
        /\ last.seen = Some(<<Deref(lz.heap, lz.arg)>>)
        /\ lz.op = "val" =>
              lz.out.v = Some(FuncResult(<<Deref(lz.heap, lz.arg)>>, fn.leaf.dim_out))

\* ---------------------------------------------------------------- ProcFunc
\* The number of ProcFunc leaves, each used by a thread of its own.
NProc == 2
\* The number of worker processes of the pool.
NWorkers == 2

Procs == 1 .. NProc

\* The Future of executor.submit before any submission.
NoFuture == [state |-> "none", args |-> <<>>, result |-> None, exc |-> "none"]

\* ProcFunc._procs is a class attribute: one ProcessPoolExecutor for every
\* ProcFunc.  leaf[p] is the PyFunc state of ProcFunc p, pc[p] where its
\* caller stands ("idle", or "waiting" inside compute()), fut[p] the Future
\* of its submission, queue the pool's pending work items, running the
\* items the worker processes hold, and done[p] how p's last operation ended.
InitProc ==
    /\ fn = [leaf |-> PyFuncInit(<<1, 1>>, 1), wraps |-> <<>>]
    /\ last = NoOp
    /\ lz = NoLazy
    /\ ctor = NoCtor
    /\ pool = [on |-> TRUE,
               leaf |-> [p \in Procs |-> PyFuncInit(<<1, 1>>, 1)],
               pc |-> [p \in Procs |-> "idle"],
               fut |-> [p \in Procs |-> NoFuture],
               queue |-> <<>>,
               running |-> {},
               done |-> [p \in Procs |-> [op |-> "init", raised |-> "none"]]]

\* p.xs = X, by p's own thread outside compute().
ProcSetXs(p, X) ==
    /\ pool.pc[p] = "idle"
    /\ pool' = [pool EXCEPT !.leaf[p] = PyFuncSetXs(@, X),
                            !.done[p] = [op |-> "setxs", raised |-> "none"]]
    /\ UNCHANGED <<fn, last, lz, ctor>>

\* p.compute() up to fut = executor.submit(func, *args): unpacking None raises
\* TypeError; otherwise a pending Future and a work item holding the
\* arguments are created.
ProcSubmit(p) ==
    /\ pool.pc[p] = "idle"
    /\ IF IsNone(pool.leaf[p].xs)
       THEN pool' = [pool EXCEPT !.done[p] = [op |-> "compute", raised |-> "TypeError"]]
       ELSE pool' = [pool EXCEPT
                !.pc[p] = "waiting",
                !.fut[p] = [state |-> "pending", args |-> Get(pool.leaf[p].xs),
                            result |-> None, exc |-> "none"],
                !.queue = Append(@, p)]
    /\ UNCHANGED <<fn, last, lz, ctor>>

\* p(*X) up to executor.submit: PyFunc.__call__ assigns xs and enters
\* compute(); ProcResult is the rest of the call.
ProcCall(p, X) ==
    /\ pool.pc[p] = "idle"
    /\ pool' = [pool EXCEPT
            !.leaf[p] = PyFuncSetXs(@, X),
            !.done[p] = [op |-> "setxs", raised |-> "none"],
            !.pc[p] = "waiting",
            !.fut[p] = [state |-> "pending", args |-> X,
                        result |-> None, exc |-> "none"],
            !.queue = Append(@, p)]
    /\ UNCHANGED <<fn, last, lz, ctor>>

\* An idle worker process takes the oldest work item.
WorkerTake ==
    /\ Cardinality(pool.running) < NWorkers
    /\ Len(pool.queue) > 0
    /\ pool' = [pool EXCEPT !.queue = Tail(@),
                            !.running = @ \cup {Head(pool.queue)},
                            !.fut[Head(pool.queue)].state = "running"]
    /\ UNCHANGED <<fn, last, lz, ctor>>

\* The Future of item q once the worker has run func(*args) for it.
WorkerOutcome(f) ==
    IF FuncRaises(f.args)
    THEN [f EXCEPT !.state = "finished", !.exc = "Error"]
    ELSE [f EXCEPT !.state = "finished", !.result = Some(FuncResult(f.args, 1))]

\* The worker process that holds item q finishes it: the result or the
\* exception is set on the item's Future.
WorkerFinish(q) ==
    /\ q \in pool.running
    /\ pool' = [pool EXCEPT !.running = @ \ {q},
                            !.fut[q] = WorkerOutcome(@)]
    /\ UNCHANGED <<fn, last, lz, ctor>>

\* fut.result() also returns on a Future whose call is still running.
FutureDoneEarly(f) == f.state \in {"running", "finished"}

\* fut.result() blocks until the Future is finished.
FutureDone(f) == f.state = "finished"

\* p.compute() from fut.result() on: the exception of the worker call is
\* raised in the caller, or the result is stored in self._ret.  The Future is
\* a local of the call and is gone when it returns.
ProcResult(p) ==
    /\ pool.pc[p] = "waiting"
    /\ FutureDone(pool.fut[p])
    /\ IF pool.fut[p].exc /= "none"
       THEN pool' = [pool EXCEPT !.pc[p] = "idle",
                                 !.fut[p] = NoFuture,
                                 !.done[p] = [op |-> "compute", raised |-> pool.fut[p].exc]]
       ELSE pool' = [pool EXCEPT !.pc[p] = "idle",
                                 !.fut[p] = NoFuture,
                                 !.leaf[p].ret = pool.fut[p].result,
                                 !.done[p] = [op |-> "compute", raised |-> "none"]]
    /\ UNCHANGED <<fn, last, lz, ctor>>

NextProc ==
    \/ \E p \in Procs : \E X \in Inputs(pool.leaf[p].dims_in) : ProcSetXs(p, X)
    \/ \E p \in Procs : ProcSubmit(p)
    \/ \E p \in Procs : \E X \in Inputs(pool.leaf[p].dims_in) : ProcCall(p, X)
    \/ WorkerTake
    \/ \E q \in Procs : WorkerFinish(q)
    \/ \E p \in Procs : ProcResult(p)

SpecProc == InitProc /\ [][NextProc]_vars

\* C9: compute() of a ProcFunc returns only once the worker call of its own
\* submission has finished; it then either leaves val the callable's result
\* on the current xs, or raises the worker's exception with val unchanged;
\* whatever the other ProcFuncs do with the shared pool.
C9_ProcFuncCompute ==
    [][\A p \in Procs :
         (pool.pc[p] = "waiting" /\ pool'.pc[p] = "idle") =>
            /\ pool.fut[p].state = "finished"
            /\ pool'.leaf[p].xs = pool.leaf[p].xs
            /\ IF FuncRaises(Get(pool.leaf[p].xs))
               THEN /\ pool'.done[p] = [op |-> "compute", raised |-> "Error"]
                    /\ pool'.leaf[p].ret = pool.leaf[p].ret
               ELSE /\ pool'.done[p] = [op |-> "compute", raised |-> "none"]
                    /\ pool'.leaf[p].ret =
                          Some(FuncResult(Get(pool.leaf[p].xs), 1))]_vars

\* The compute() of ProcFunc 1 has raised the worker's exception, an earlier
\* val still cached, while ProcFunc 2 waits for its own call, which a worker
\* is running.
C9_Witness ==
    /\ pool.on
    /\ pool.done[1] = [op |-> "compute", raised |-> "Error"]
    /\ ~IsNone(pool.leaf[1].ret)
    /\ pool.pc[2] = "waiting"
    /\ pool.fut[2].state = "running"

====
